---- MODULE Spec2Model ----
(***************************************************************************)
(* ds::table<value_type>: a sparse grid container.  Three arrays implement *)
(* the indirection: `cells` (dense value store), `cells_indices` (the      *)
(* back-index: for each dense slot the flattened cell-id that owns it) and *)
(* `table_indices` (the lookup array, one entry per cell, `none` or a      *)
(* dense index).  std::vector is modelled as a TLA+ sequence: the C++      *)
(* element v[i] is the TLA+ element v[i + 1].  Stored indices keep their   *)
(* C++ (0-based) values.                                                   *)
(*                                                                         *)
(* Every public member function is an operator from a table record (and    *)
(* the arguments) to an outcome record, and an action that applies it to   *)
(* the current table.  `call` says which call has just ended and how, and  *)
(* `pre` is the table as it was when that call was made.  Return hands     *)
(* control back to the caller, which makes the next call.                  *)
(***************************************************************************)
EXTENDS Integers, Sequences, FiniteSets

VARIABLES rows, cols, cells, cells_indices, table_indices, pre, call

vars == <<rows, cols, cells, cells_indices, table_indices, pre, call>>

(***************************************************************************)
(* Bounds of the model.                                                    *)
(***************************************************************************)
\* Tables have 0..MaxDim rows and 0..MaxDim columns.
MaxDim == 2
\* value_type is int; the stored values are 1..NumValues.
NumValues == 2
\* Tables have at most MaxCells cells (rows * cols).
MaxCells == 4

DimRange == 0 .. MaxDim
\* The dimensions a table is constructed with or resized to.
Dimensions == {d \in DimRange \X DimRange : d[1] * d[2] <= MaxCells}
\* Coordinates passed to the calls: one below and one past every valid index.
Coord == -1 .. MaxDim
Values == 1 .. NumValues

(***************************************************************************)
(* Program constants.                                                      *)
(***************************************************************************)
\* auto inline static constexpr none {-INT_MAX};
none == -2147483647
\* std::size_t static constexpr default_size {4};
default_size == 4

(***************************************************************************)
(* The table as one record, and the outcome of a call.                     *)
(*   status: "ok"           the call returned normally                     *)
(*           "out_of_range" std::out_of_range reached the caller           *)
(*           "terminate"    an exception left a noexcept function:         *)
(*                          std::terminate ends the process                *)
(*           "crash"        the process died in undefined behaviour        *)
(*   ub:     the call executed undefined behaviour                         *)
(*   ret:    <<v>> when a value (or a reference/pointer to one) is         *)
(*           returned, <<>> otherwise (void, nullptr)                      *)
(*   slot:   <<i>> when the returned reference/pointer designates          *)
(*           cells[i], <<>> otherwise                                      *)
(*   flag:   the boolean returned by contains                              *)
(***************************************************************************)
Table == [rows |-> rows, cols |-> cols, cells |-> cells,
          cells_indices |-> cells_indices, table_indices |-> table_indices]

Outcome(T, status, ret, slot) ==
    [t |-> T, status |-> status, ub |-> FALSE, ret |-> ret, slot |-> slot,
     flag |-> FALSE]

Returns(T, ret, slot) == Outcome(T, "ok", ret, slot)

Throws(T) == Outcome(T, "out_of_range", <<>>, <<>>)

\* std::vector::at(i) with an int i: i is converted to size_type, so a
\* negative i is a huge index; at throws std::out_of_range unless i < size().
in_range(v, i) == 0 <= i /\ i < Len(v)

\* Mutant of table: the lookup array is filled with 0 instead of `none`.
table_zero_filled(number_of_rows, number_of_cols) ==
    [rows |-> number_of_rows, cols |-> number_of_cols,
     cells |-> <<>>, cells_indices |-> <<>>,
     table_indices |-> [k \in 1 .. number_of_rows * number_of_cols |-> 0]]

\* table(number_of_rows, number_of_cols)
table(number_of_rows, number_of_cols) ==
    [rows |-> number_of_rows, cols |-> number_of_cols,
     cells |-> <<>>, cells_indices |-> <<>>,
     table_indices |-> [k \in 1 .. number_of_rows * number_of_cols |-> none]]

\* table(): default_size rows and default_size columns.
table_default == table(default_size, default_size)

size(T) == T.rows * T.cols

dimensions(T) == <<T.rows, T.cols>>

count(T) == Len(T.cells)

empty(T) == Len(T.cells) = 0

\* cells.data(): the underlying array of data items.
data(T) == T.cells

\* Mutant of begin: the iteration starts at the second data item.
begin_second(T) == IF Len(T.cells) > 0 THEN 1 ELSE 0

\* cells.begin() and cells.end(), as positions in the dense store.
begin(T) == 0

end(T) == Len(T.cells)

\* for (auto const& item : table): the values visited from begin() up to
\* end(), in order.
iterate(T) == [k \in 1 .. end(T) - begin(T) |-> data(T)[begin(T) + k]]

\* Mutant of get_table_index: the row is not scaled by the column count.
get_table_index_sum(T, row, column) == row + column

\* row * cols + column, computed in size_t and converted to int.  For the
\* coordinates and dimensions of this model no wrap-around arises: the
\* result is the mathematical value, negative when row or column is.
get_table_index(T, row, column) == row * T.cols + column


(***************************************************************************)
(* Queries.                                                                *)
(***************************************************************************)
\* Mutant of at: an empty cell is answered like get answers it, with nothing
\* returned and no exception.
at_unchecked(T, row, column) ==
    LET t == get_table_index(T, row, column) IN
    IF ~in_range(T.table_indices, t) THEN Throws(T)
    ELSE LET i == T.table_indices[t + 1] IN
         IF ~in_range(T.cells, i) THEN Returns(T, <<>>, <<>>)
         ELSE Returns(T, <<T.cells[i + 1]>>, <<i>>)

\* value_type& at(int row, int column) noexcept(false)
at(T, row, column) ==
    LET t == get_table_index(T, row, column) IN
    IF ~in_range(T.table_indices, t) THEN Throws(T)
    ELSE LET i == T.table_indices[t + 1] IN
         IF ~in_range(T.cells, i) THEN Throws(T)
         ELSE Returns(T, <<T.cells[i + 1]>>, <<i>>)

\* Mutant of at_else: no test for `none`, so that cells.at throws for an
\* empty cell.
at_else_checked(T, row, column, otherwise) ==
    LET t == get_table_index(T, row, column) IN
    IF ~in_range(T.table_indices, t) THEN Throws(T)
    ELSE LET i == T.table_indices[t + 1] IN
         IF ~in_range(T.cells, i) THEN Throws(T)
         ELSE Returns(T, <<T.cells[i + 1]>>, <<i>>)

\* value_type& at_else(int row, int column, value_type& otherwise)
\* The reference returned is `otherwise` itself (no slot) or cells[i].
at_else(T, row, column, otherwise) ==
    LET t == get_table_index(T, row, column) IN
    IF ~in_range(T.table_indices, t) THEN Throws(T)
    ELSE LET i == T.table_indices[t + 1] IN
         IF i = none THEN Returns(T, <<otherwise>>, <<>>)
         ELSE IF ~in_range(T.cells, i) THEN Throws(T)
         ELSE Returns(T, <<T.cells[i + 1]>>, <<i>>)

\* Mutant of get: no test for `none`, so that cells.at throws for an empty
\* cell.
get_checked(T, row, column) ==
    LET t == get_table_index(T, row, column) IN
    IF ~in_range(T.table_indices, t) THEN Throws(T)
    ELSE LET i == T.table_indices[t + 1] IN
         IF ~in_range(T.cells, i) THEN Throws(T)
         ELSE Returns(T, <<T.cells[i + 1]>>, <<i>>)

\* value_type* get(int row, int column)
get(T, row, column) ==
    LET t == get_table_index(T, row, column) IN
    IF ~in_range(T.table_indices, t) THEN Throws(T)
    ELSE LET i == T.table_indices[t + 1] IN
         IF i = none THEN Returns(T, <<>>, <<>>)
         ELSE IF ~in_range(T.cells, i) THEN Throws(T)
         ELSE Returns(T, <<T.cells[i + 1]>>, <<i>>)

\* Mutant of contains: the lookup entry is tested for being positive, so
\* that the cell of the first dense slot is reported empty.
contains_positive(T, row, column) ==
    LET t == get_table_index(T, row, column) IN
    IF ~in_range(T.table_indices, t) THEN Outcome(T, "terminate", <<>>, <<>>)
    ELSE [Returns(T, <<>>, <<>>) EXCEPT !.flag = T.table_indices[t + 1] > 0]

\* bool contains(int row, int column) const noexcept
\* The exception of table_indices.at(t) cannot leave a noexcept function:
\* std::terminate is called.
contains(T, row, column) ==
    LET t == get_table_index(T, row, column) IN
    IF ~in_range(T.table_indices, t) THEN Outcome(T, "terminate", <<>>, <<>>)
    ELSE [Returns(T, <<>>, <<>>) EXCEPT !.flag = T.table_indices[t + 1] # none]

\* Mutant of contains_index: declared noexcept, so that the exception of
\* table_indices.at ends the process instead of reaching the caller.
contains_index_noexcept(T, table_index) ==
    IF ~in_range(T.table_indices, table_index)
    THEN Outcome(T, "terminate", <<>>, <<>>)
    ELSE [Returns(T, <<>>, <<>>) EXCEPT
              !.flag = T.table_indices[table_index + 1] # none]

\* bool contains(int table_index) const noexcept(false)   (private)
contains_index(T, table_index) ==
    IF ~in_range(T.table_indices, table_index) THEN Throws(T)
    ELSE [Returns(T, <<>>, <<>>) EXCEPT
              !.flag = T.table_indices[table_index + 1] # none]

(***************************************************************************)
(* set and emplace.                                                        *)
(***************************************************************************)
\* Mutant of modify: the new value goes to the first slot, whatever
\* cells_index is.
modify_first_slot(T, cells_index, new_value) ==
    IF ~in_range(T.cells, cells_index) THEN Throws(T)
    ELSE Returns([T EXCEPT !.cells[1] = new_value], <<new_value>>, <<0>>)

\* value_type& modify(int cells_index, value_type new_value)   (private)
modify(T, cells_index, new_value) ==
    IF ~in_range(T.cells, cells_index) THEN Throws(T)
    ELSE Returns([T EXCEPT !.cells[cells_index + 1] = new_value],
                 <<new_value>>, <<cells_index>>)

\* Mutant of set: the appended element is not recorded in the lookup array.
set_without_lookup(T, row, column, element) ==
    LET t == get_table_index(T, row, column)
        c == contains_index(T, t)
    IN  IF c.status # "ok" THEN c
        ELSE IF c.flag THEN modify(T, T.table_indices[t + 1], element)
        ELSE Returns([T EXCEPT !.cells = Append(@, element),
                               !.cells_indices = Append(@, t)],
                     <<element>>, <<Len(T.cells)>>)

\* Mutant of set: n is taken after the push_back, so that the lookup entry
\* is one past the slot of the new element.
set_counts_after_push(T, row, column, element) ==
    LET t == get_table_index(T, row, column)
        c == contains_index(T, t)
    IN  IF c.status # "ok" THEN c
        ELSE IF c.flag THEN modify(T, T.table_indices[t + 1], element)
        ELSE Returns([T EXCEPT !.cells = Append(@, element),
                               !.cells_indices = Append(@, t),
                               !.table_indices[t + 1] = Len(T.cells) + 1],
                     <<element>>, <<Len(T.cells)>>)

\* value_type& set(int row, int column, value_type element)
set(T, row, column, element) ==
    LET t == get_table_index(T, row, column)
        n == Len(T.cells)
        c == contains_index(T, t)
    IN  IF c.status # "ok" THEN c
        ELSE IF c.flag THEN modify(T, T.table_indices[t + 1], element)
        ELSE Returns([T EXCEPT !.cells = Append(@, element),
                               !.cells_indices = Append(@, t),
                               !.table_indices[t + 1] = n],
                     <<element>>, <<n>>)

\* value_type(arguments...): value_type is int, constructed from one int.
value_type(arguments) == arguments

\* Mutant of emplace: no test for a populated cell, the value is always
\* appended.
emplace_always_appends(T, row, column, arguments) ==
    LET t == get_table_index(T, row, column)
        n == Len(T.cells)
        c == contains_index(T, t)
    IN  IF c.status # "ok" THEN c
        ELSE Returns([T EXCEPT !.cells = Append(@, value_type(arguments)),
                               !.cells_indices = Append(@, t),
                               !.table_indices[t + 1] = n],
                     <<value_type(arguments)>>, <<n>>)

\* value_type& emplace(int row, int column, Arguments&& ... arguments)
emplace(T, row, column, arguments) ==
    LET t == get_table_index(T, row, column)
        n == Len(T.cells)
        c == contains_index(T, t)
    IN  IF c.status # "ok" THEN c
        ELSE IF c.flag
             THEN modify(T, T.table_indices[t + 1], value_type(arguments))
        ELSE Returns([T EXCEPT !.cells = Append(@, value_type(arguments)),
                               !.cells_indices = Append(@, t),
                               !.table_indices[t + 1] = n],
                     <<value_type(arguments)>>, <<n>>)

(***************************************************************************)
(* erase.                                                                  *)
(***************************************************************************)
\* Mutant of pop_back: nothing is removed.
pop_back_nothing(v) == v

\* The vector without its last element.
pop_back(v) == SubSeq(v, 1, Len(v) - 1)

\* Mutant of swap_and_erase_container: the element is removed by shifting
\* the later ones down (std::vector::erase) instead of by swap and pop.
shift_and_erase_container(container, container_index) ==
    SubSeq(container, 1, container_index)
        \o SubSeq(container, container_index + 2, Len(container))

\* Mutant of swap_and_erase_container: the last element is popped without
\* the exchange.
pop_and_erase_container(container, container_index) == pop_back(container)

\* void swap_and_erase(std::vector<K>& container, int container_index)
\* for an index inside the container: exchange the element with the last
\* one and pop.
swap_and_erase_container(container, container_index) ==
    pop_back([container EXCEPT ![container_index + 1] = container[Len(container)]])

\* int swap_and_erase(int cells_index)   (private)
\* The set of outcomes; ret is <<the value returned>>.  Nothing checks
\* cells_index.  When it is no index of the vectors (it is `none` when the
\* cell is empty), container.data() + container_index lies outside the
\* array and std::iter_swap reads and writes through it: undefined
\* behaviour.  The outcomes modelled are the process dying there, and, for
\* non-empty vectors, the stray exchange going through: the last element of
\* each vector is exchanged with foreign memory and popped, and
\* cells_indices.at(cells_index) then throws.  (With empty vectors pop_back
\* leaves size() at SIZE_MAX; only the crash is modelled.)
swap_and_erase(T, cells_index) ==
    IF in_range(T.cells_indices, cells_index) /\ in_range(T.cells, cells_index)
    THEN LET T1 == [T EXCEPT
                      !.cells_indices = swap_and_erase_container(@, cells_index),
                      !.cells = swap_and_erase_container(@, cells_index)]
         IN  {IF cells_index = Len(T1.cells)
              THEN Returns(T1, <<none>>, <<>>)
              ELSE Returns(T1, <<T1.cells_indices[cells_index + 1]>>, <<>>)}
    ELSE {[Outcome(T, "crash", <<>>, <<>>) EXCEPT !.ub = TRUE]}
         \cup
         (IF Len(T.cells) > 0 /\ Len(T.cells_indices) > 0
          THEN {[Throws([T EXCEPT !.cells_indices = pop_back(@),
                                  !.cells = pop_back(@)])
                   EXCEPT !.ub = TRUE]}
          ELSE {})

\* Mutant of erase_fixup: the lookup entry of the relocated element is not
\* updated.
erase_fixup_no_update(T1, table_int, cells_int, updatable) ==
    Returns([T1 EXCEPT !.table_indices[table_int + 1] = none], <<>>, <<>>)

\* Mutant of erase_fixup: the erased cell is not marked `none`.
erase_fixup_no_clear(T1, table_int, cells_int, updatable) ==
    IF updatable # none
    THEN IF ~in_range(T1.table_indices, updatable) THEN Throws(T1)
         ELSE Returns([T1 EXCEPT !.table_indices[updatable + 1] = cells_int],
                      <<>>, <<>>)
    ELSE Returns(T1, <<>>, <<>>)

\* The rest of erase once swap_and_erase has returned `updatable`.
erase_fixup(T1, table_int, cells_int, updatable) ==
    LET T2 == [T1 EXCEPT !.table_indices[table_int + 1] = none] IN
    IF updatable # none
    THEN IF ~in_range(T2.table_indices, updatable) THEN Throws(T2)
         ELSE Returns([T2 EXCEPT !.table_indices[updatable + 1] = cells_int],
                      <<>>, <<>>)
    ELSE Returns(T2, <<>>, <<>>)

\* void erase(int const row, int const column) noexcept(false)
\* The set of outcomes.
erase(T, row, column) ==
    LET table_int == get_table_index(T, row, column) IN
    IF ~in_range(T.table_indices, table_int) THEN {Throws(T)}
    ELSE LET cells_int == T.table_indices[table_int + 1] IN
         { IF s.status # "ok" THEN s
           ELSE erase_fixup(s.t, table_int, cells_int, s.ret[1])
           : s \in swap_and_erase(T, cells_int) }

(***************************************************************************)
(* reset and set_size.                                                     *)
(***************************************************************************)
\* Mutant of reset: the dense store and the back-index are cleared, the
\* lookup array is left as it is.
reset_dense_only(T) ==
    Returns([T EXCEPT !.cells = <<>>, !.cells_indices = <<>>], <<>>, <<>>)

\* Mutant of reset: the table is assigned a default-constructed one.
reset_to_default(T) == Returns(table_default, <<>>, <<>>)

\* void reset():  *this = table<value_type>(rows, cols);
reset(T) == Returns(table(T.rows, T.cols), <<>>, <<>>)

\* Mutant of set_size_loop: only the row is tested against the new bounds.
RECURSIVE set_size_loop_row_only(_, _, _, _, _)
set_size_loop_row_only(T, new_table, i, number_of_rows, number_of_columns) ==
    IF ~(i < Len(T.cells_indices)) THEN Returns(new_table, <<>>, <<>>)
    ELSE IF ~in_range(T.cells, i) THEN Throws(T)
    ELSE LET index == T.cells_indices[i + 1]
             datum == T.cells[i + 1]
             row   == index \div T.cols
             col   == index % T.cols
         IN  IF row < number_of_rows
             THEN LET s == set(new_table, row, col, datum) IN
                  IF s.status # "ok" THEN Outcome(T, s.status, <<>>, <<>>)
                  ELSE set_size_loop_row_only(T, s.t, i + 1,
                                     number_of_rows, number_of_columns)
             ELSE set_size_loop_row_only(T, new_table, i + 1,
                                number_of_rows, number_of_columns)

\* Mutant of set_size_loop: every element is set into the new table, with
\* no test of its row and column against the new bounds.
RECURSIVE set_size_loop_unfiltered(_, _, _, _, _)
set_size_loop_unfiltered(T, new_table, i, number_of_rows, number_of_columns) ==
    IF ~(i < Len(T.cells_indices)) THEN Returns(new_table, <<>>, <<>>)
    ELSE IF ~in_range(T.cells, i) THEN Throws(T)
    ELSE LET index == T.cells_indices[i + 1]
             datum == T.cells[i + 1]
             row   == index \div T.cols
             col   == index % T.cols
             s     == set(new_table, row, col, datum)
         IN  IF s.status # "ok" THEN Outcome(T, s.status, <<>>, <<>>)
             ELSE set_size_loop_unfiltered(T, s.t, i + 1,
                                           number_of_rows, number_of_columns)

\* Mutant of set_size_loop: the loop ends at the first element outside the
\* new bounds (break for continue).
RECURSIVE set_size_loop_stops_at_dropped(_, _, _, _, _)
set_size_loop_stops_at_dropped(T, new_table, i, number_of_rows, number_of_columns) ==
    IF ~(i < Len(T.cells_indices)) THEN Returns(new_table, <<>>, <<>>)
    ELSE IF ~in_range(T.cells, i) THEN Throws(T)
    ELSE LET index == T.cells_indices[i + 1]
             datum == T.cells[i + 1]
             row   == index \div T.cols
             col   == index % T.cols
         IN  IF row < number_of_rows /\ col < number_of_columns
             THEN LET s == set(new_table, row, col, datum) IN
                  IF s.status # "ok" THEN Outcome(T, s.status, <<>>, <<>>)
                  ELSE set_size_loop_stops_at_dropped(T, s.t, i + 1,
                                     number_of_rows, number_of_columns)
             ELSE Returns(new_table, <<>>, <<>>)

\* Mutant of set_size_loop: the elements are visited from the last to the
\* first.
RECURSIVE set_size_loop_reversed(_, _, _, _, _)
set_size_loop_reversed(T, new_table, i, number_of_rows, number_of_columns) ==
    IF ~(i < Len(T.cells_indices)) THEN Returns(new_table, <<>>, <<>>)
    ELSE IF ~in_range(T.cells, Len(T.cells_indices) - 1 - i) THEN Throws(T)
    ELSE LET index == T.cells_indices[Len(T.cells_indices) - i]
             datum == T.cells[Len(T.cells_indices) - i]
             row   == index \div T.cols
             col   == index % T.cols
         IN  IF row < number_of_rows /\ col < number_of_columns
             THEN LET s == set(new_table, row, col, datum) IN
                  IF s.status # "ok" THEN Outcome(T, s.status, <<>>, <<>>)
                  ELSE set_size_loop_reversed(T, s.t, i + 1,
                                     number_of_rows, number_of_columns)
             ELSE set_size_loop_reversed(T, new_table, i + 1,
                                number_of_rows, number_of_columns)

\* The loop of set_size from iteration i on; new_table is the table being
\* built.  An exception leaves set_size before *this is assigned.
RECURSIVE set_size_loop(_, _, _, _, _)
set_size_loop(T, new_table, i, number_of_rows, number_of_columns) ==
    IF ~(i < Len(T.cells_indices)) THEN Returns(new_table, <<>>, <<>>)
    ELSE IF ~in_range(T.cells, i) THEN Throws(T)
    ELSE LET index == T.cells_indices[i + 1]
             datum == T.cells[i + 1]
             row   == index \div T.cols
             col   == index % T.cols
         IN  IF row < number_of_rows /\ col < number_of_columns
             THEN LET s == set(new_table, row, col, datum) IN
                  IF s.status # "ok" THEN Outcome(T, s.status, <<>>, <<>>)
                  ELSE set_size_loop(T, s.t, i + 1,
                                     number_of_rows, number_of_columns)
             ELSE set_size_loop(T, new_table, i + 1,
                                number_of_rows, number_of_columns)

\* Mutant of set_size: the dimensions and the lookup array are renewed, the
\* dense store and the back-index are kept as they are.
set_size_keeps_store(T, number_of_rows, number_of_columns) ==
    Returns([T EXCEPT
               !.rows = number_of_rows,
               !.cols = number_of_columns,
               !.table_indices =
                   table(number_of_rows, number_of_columns).table_indices],
            <<>>, <<>>)

\* Mutant of set_size: only rows and cols are assigned.
set_size_renames(T, number_of_rows, number_of_columns) ==
    Returns([T EXCEPT !.rows = number_of_rows, !.cols = number_of_columns],
            <<>>, <<>>)

\* Mutant of set_size: the new table is assigned without the elements.
set_size_discards(T, number_of_rows, number_of_columns) ==
    Returns(table(number_of_rows, number_of_columns), <<>>, <<>>)

\* void set_size(std::size_t number_of_rows, std::size_t number_of_columns)
set_size(T, number_of_rows, number_of_columns) ==
    LET r == set_size_loop(T, table(number_of_rows, number_of_columns), 0,
                           number_of_rows, number_of_columns)
    IN  IF r.status = "ok" THEN Returns(r.t, <<>>, <<>>) ELSE r

(***************************************************************************)
(* The state machine: one action per public member function.               *)
(***************************************************************************)
\* The record of a call.
Call(op, row, col, val, R) ==
    [op |-> op, row |-> row, col |-> col, val |-> val, status |-> R.status,
     ub |-> R.ub, ret |-> R.ret, slot |-> R.slot, flag |-> R.flag]

\* No call is in progress: the caller is about to make one.
Idle == Call("idle", 0, 0, 0, Returns(Table, <<>>, <<>>))

\* The process has ended: std::terminate, or undefined behaviour.
Halted == call.status \in {"terminate", "crash"} \/ call.ub

\* The call made, with outcome R.
Apply(op, row, col, val, R) ==
    /\ call.op = "idle"
    /\ rows' = R.t.rows
    /\ cols' = R.t.cols
    /\ cells' = R.t.cells
    /\ cells_indices' = R.t.cells_indices
    /\ table_indices' = R.t.table_indices
    /\ pre' = Table
    /\ call' = Call(op, row, col, val, R)

Init ==
    \E d \in Dimensions :
        /\ rows = table(d[1], d[2]).rows
        /\ cols = table(d[1], d[2]).cols
        /\ cells = table(d[1], d[2]).cells
        /\ cells_indices = table(d[1], d[2]).cells_indices
        /\ table_indices = table(d[1], d[2]).table_indices
        /\ pre = table(d[1], d[2])
        /\ call = Call("table", d[1], d[2], 0,
                       Returns(table(d[1], d[2]), <<>>, <<>>))

\* table(): the default constructor.
InitDefault ==
    /\ rows = table_default.rows
    /\ cols = table_default.cols
    /\ cells = table_default.cells
    /\ cells_indices = table_default.cells_indices
    /\ table_indices = table_default.table_indices
    /\ pre = table_default
    /\ call = Call("table_default", 0, 0, 0, Returns(table_default, <<>>, <<>>))

\* The call has ended without ending the process (it returned or threw to
\* the caller): the caller goes on.
Return ==
    /\ call.op # "idle"
    /\ ~Halted
    /\ call' = Idle
    /\ pre' = Table
    /\ UNCHANGED <<rows, cols, cells, cells_indices, table_indices>>

\* The observers: ret is <<the number returned>>, the pair returned, or the
\* values visited; flag is the boolean returned.
Size == Apply("size", 0, 0, 0, Returns(Table, <<size(Table)>>, <<>>))

DimensionsOf ==
    Apply("dimensions", 0, 0, 0, Returns(Table, dimensions(Table), <<>>))

Count == Apply("count", 0, 0, 0, Returns(Table, <<count(Table)>>, <<>>))

Empty ==
    Apply("empty", 0, 0, 0,
          [Returns(Table, <<>>, <<>>) EXCEPT !.flag = empty(Table)])

Iterate == Apply("iterate", 0, 0, 0, Returns(Table, iterate(Table), <<>>))

At == \E r \in Coord, c \in Coord : Apply("at", r, c, 0, at(Table, r, c))

AtElse ==
    \E r \in Coord, c \in Coord, v \in Values :
        Apply("at_else", r, c, v, at_else(Table, r, c, v))

Get == \E r \in Coord, c \in Coord : Apply("get", r, c, 0, get(Table, r, c))

Contains ==
    \E r \in Coord, c \in Coord :
        Apply("contains", r, c, 0, contains(Table, r, c))

Set ==
    \E r \in Coord, c \in Coord, v \in Values :
        Apply("set", r, c, v, set(Table, r, c, v))

Emplace ==
    \E r \in Coord, c \in Coord, v \in Values :
        Apply("emplace", r, c, v, emplace(Table, r, c, v))

Erase ==
    \E r \in Coord, c \in Coord :
        \E R \in erase(Table, r, c) : Apply("erase", r, c, 0, R)

Reset == Apply("reset", 0, 0, 0, reset(Table))

SetSize ==
    \E d \in Dimensions :
        Apply("set_size", d[1], d[2], 0, set_size(Table, d[1], d[2]))

Next ==
    \/ Size
    \/ DimensionsOf
    \/ Count
    \/ Empty
    \/ Iterate
    \/ At
    \/ AtElse
    \/ Get
    \/ Contains
    \/ Set
    \/ Emplace
    \/ Erase
    \/ Reset
    \/ SetSize
    \/ Return

Spec == Init /\ [][Next]_vars

\* The mutating calls alone.  The queries leave the table as it is, so the
\* tables reached are those of Spec.
NextUpdate ==
    \/ Set
    \/ Emplace
    \/ Erase
    \/ Reset
    \/ SetSize
    \/ Return

SpecUpdate == Init /\ [][NextUpdate]_vars

\* Construction alone: a table made by either constructor, and the calls
\* that observe it without changing it.
InitConstruct == Init \/ InitDefault

NextConstruct ==
    \/ Size
    \/ DimensionsOf
    \/ Count
    \/ Empty
    \/ Contains
    \/ Return

SpecConstruct == InitConstruct /\ [][NextConstruct]_vars

(***************************************************************************)
(* Vocabulary of the properties.                                           *)
(***************************************************************************)
\* (row, column) is a cell of T.
InBounds(T, row, column) ==
    0 <= row /\ row < T.rows /\ 0 <= column /\ column < T.cols

\* The cells of T.
CellsOf(T) == {rc \in DimRange \X DimRange : InBounds(T, rc[1], rc[2])}

\* contains(row, column) returns true.
Populated(T, row, column) ==
    LET q == contains(T, row, column) IN q.status = "ok" /\ q.flag

\* The table now equals T: the call changed nothing of it.
Unchanged(T) == Table = T

\* The last call had defined behaviour.
Defined == ~call.ub

\* The last call was op on a cell of the table it was made on.
CalledInBounds(op) ==
    call.op = op /\ InBounds(pre, call.row, call.col)

(***************************************************************************)
(* C1.  In every state reached by set, emplace, erase of a populated cell, *)
(* set_size and reset (calls that throw included), the lookup array and    *)
(* the back-index are mutually inverse: every lookup entry that is not     *)
(* `none` is a dense index in [0, count()) whose back-index entry is that  *)
(* cell-id, every back-index entry is a cell-id whose lookup entry is that *)
(* dense index, the back-index is as long as the dense store and holds no  *)
(* cell-id twice.                                                          *)
(***************************************************************************)
C1_LookupInverse ==
    Defined =>
        /\ Len(cells_indices) = Len(cells)
        /\ \A c \in 0 .. Len(table_indices) - 1 :
               table_indices[c + 1] # none =>
                   /\ in_range(cells, table_indices[c + 1])
                   /\ cells_indices[table_indices[c + 1] + 1] = c
        /\ \A i \in 0 .. Len(cells_indices) - 1 :
               /\ in_range(table_indices, cells_indices[i + 1])
               /\ table_indices[cells_indices[i + 1] + 1] = i
        /\ \A i, j \in 1 .. Len(cells_indices) :
               cells_indices[i] = cells_indices[j] => i = j

\* An erase has relocated the last element into the vacated slot, and two
\* elements remain.
C1_Witness ==
    /\ CalledInBounds("erase")
    /\ call.status = "ok"
    /\ Len(pre.cells) = 3
    /\ pre.table_indices[get_table_index(pre, call.row, call.col) + 1] = 0
    /\ Len(cells) = 2

(***************************************************************************)
(* C2.  After any sequence of set, emplace and erase calls (and reset,     *)
(* set_size), count() is the number of cells (row, col) of the table for   *)
(* which contains(row, col) returns true, and is the length of the dense   *)
(* store.                                                                  *)
(***************************************************************************)
C2_CountIsPopulated ==
    Defined =>
        /\ count(Table) =
               Cardinality({rc \in CellsOf(Table) :
                                Populated(Table, rc[1], rc[2])})
        /\ count(Table) = Len(cells)

\* An erase has left two elements.
C2_Witness ==
    /\ call.op = "erase"
    /\ call.status = "ok"
    /\ Len(pre.cells) = 3
    /\ count(Table) = 2

(***************************************************************************)
(* C3.  set_size(r, c), whatever the old dimensions, completes, and after  *)
(* it a cell (row, col) is populated iff it was populated before the call  *)
(* and row < r and col < c; a surviving element has the value it had.      *)
(***************************************************************************)
C3_SetSizeKeepsExactlyInside ==
    call.op = "set_size" =>
        /\ call.status = "ok"
        /\ dimensions(Table) = <<call.row, call.col>>
        /\ \A row \in DimRange, col \in DimRange :
               /\ (InBounds(Table, row, col) /\ Populated(Table, row, col))
                  <=> /\ InBounds(pre, row, col)
                      /\ Populated(pre, row, col)
                      /\ row < call.row
                      /\ col < call.col
               /\ (InBounds(Table, row, col) /\ Populated(Table, row, col))
                  => at(Table, row, col).ret = at(pre, row, col).ret

\* A set_size to another column count has dropped an element and kept one
\* whose cell-id changed.
C3_Witness ==
    /\ call.op = "set_size"
    /\ pre.cols # cols
    /\ Len(cells) >= 1
    /\ Len(cells) < Len(pre.cells)
    /\ \E i \in 1 .. Len(cells) :
           \A j \in 1 .. Len(pre.cells) :
               pre.cells_indices[j] # cells_indices[i]

(***************************************************************************)
(* C4.  erase(row, col) of a populated cell of the table returns, lowers   *)
(* count() by exactly one and empties the cell: contains(row, col) is      *)
(* false, get(row, col) is null and at_else(row, col, f) returns f; when   *)
(* the element was the only one, empty() is true.                          *)
(***************************************************************************)
C4_EraseEmptiesCell ==
    (CalledInBounds("erase") /\ Populated(pre, call.row, call.col)) =>
        /\ call.status = "ok"
        /\ count(Table) = count(pre) - 1
        /\ contains(Table, call.row, call.col).status = "ok"
        /\ ~contains(Table, call.row, call.col).flag
        /\ get(Table, call.row, call.col).status = "ok"
        /\ get(Table, call.row, call.col).ret = <<>>
        /\ \A f \in Values :
               /\ at_else(Table, call.row, call.col, f).status = "ok"
               /\ at_else(Table, call.row, call.col, f).ret = <<f>>
               /\ at_else(Table, call.row, call.col, f).slot = <<>>
        /\ (count(pre) = 1 => empty(Table))

\* The only element of a table has been erased.
C4_Witness ==
    /\ CalledInBounds("erase")
    /\ Populated(pre, call.row, call.col)
    /\ count(pre) = 1
    /\ empty(Table)

(***************************************************************************)
(* C5.  erase(row, col) of a populated cell leaves every other cell as it  *)
(* was for the caller: contains and at answer for it as before the erase,  *)
(* also for the element that swap-and-pop moved into the vacated slot.     *)
(***************************************************************************)
C5_EraseFrame ==
    (CalledInBounds("erase") /\ Populated(pre, call.row, call.col)) =>
        \A rc \in CellsOf(pre) :
            rc # <<call.row, call.col>> =>
                /\ contains(Table, rc[1], rc[2]).status = "ok"
                /\ contains(Table, rc[1], rc[2]).flag
                       = contains(pre, rc[1], rc[2]).flag
                /\ at(Table, rc[1], rc[2]).status = at(pre, rc[1], rc[2]).status
                /\ at(Table, rc[1], rc[2]).ret = at(pre, rc[1], rc[2]).ret

\* The first of three elements has been erased: the third was moved into its
\* slot and the second stayed.
C5_Witness ==
    /\ CalledInBounds("erase")
    /\ Len(pre.cells) = 3
    /\ pre.table_indices[get_table_index(pre, call.row, call.col) + 1] = 0
    /\ Len(cells) = 2
    /\ cells_indices[1] = pre.cells_indices[3]
    /\ pre.cells[1] # pre.cells[3]

(***************************************************************************)
(* C6.  set(row, col, v) on a cell of the table returns; a populated cell  *)
(* has its value replaced in its dense slot and count() is as before, an   *)
(* empty cell raises count() by exactly one; in both cases at(row, col) is *)
(* then v and contains(row, col) is true.                                  *)
(***************************************************************************)
C6_SetStores ==
    CalledInBounds("set") =>
        LET t == get_table_index(pre, call.row, call.col) IN
        /\ call.status = "ok"
        /\ Populated(pre, call.row, call.col) =>
               /\ count(Table) = count(pre)
               /\ Table = [pre EXCEPT
                             !.cells[pre.table_indices[t + 1] + 1] = call.val]
        /\ ~Populated(pre, call.row, call.col) =>
               count(Table) = count(pre) + 1
        /\ at(Table, call.row, call.col).status = "ok"
        /\ at(Table, call.row, call.col).ret = <<call.val>>
        /\ Populated(Table, call.row, call.col)

\* A populated cell that is not in the first dense slot has been set to
\* another value.
C6_Witness ==
    /\ CalledInBounds("set")
    /\ Populated(pre, call.row, call.col)
    /\ at(pre, call.row, call.col).ret # <<call.val>>
    /\ at(pre, call.row, call.col).slot # <<0>>
    /\ call.status = "ok"

(***************************************************************************)
(* C7.  emplace(row, col, args) ends as set(row, col, value_type(args))    *)
(* ends from the same table: the same dense store, back-index, lookup      *)
(* array and count, for an empty cell and for a populated one.             *)
(***************************************************************************)
C7_EmplaceAsSet ==
    call.op = "emplace" =>
        LET S == set(pre, call.row, call.col, value_type(call.val)) IN
        /\ Table = S.t
        /\ count(Table) = count(S.t)
        /\ call.status = S.status
        /\ call.ret = S.ret
        /\ call.slot = S.slot

\* emplace has replaced the value of a populated cell by another one.
C7_Witness ==
    /\ CalledInBounds("emplace")
    /\ Populated(pre, call.row, call.col)
    /\ call.status = "ok"
    /\ cells # pre.cells
    /\ Len(cells) = Len(pre.cells)

(***************************************************************************)
(* C8.  Every call that takes coordinates (at, at_else, get, contains,     *)
(* set, emplace, erase) throws std::out_of_range to its caller when row is *)
(* outside [0, rows) or column outside [0, cols), and neither reads nor    *)
(* writes another cell.                                                    *)
(***************************************************************************)
CoordinateOps == {"at", "at_else", "get", "contains", "set", "emplace", "erase"}

C8_OutOfRangeRaised ==
    (call.op \in CoordinateOps /\ ~InBounds(pre, call.row, call.col)) =>
        /\ call.status = "out_of_range"
        /\ call.ret = <<>>
        /\ Unchanged(pre)

(***************************************************************************)
(* C9.  erase(row, col) of an empty cell of the table is a checked error:  *)
(* the call throws to its caller and the dense store, the back-index, the  *)
(* lookup array and the dimensions are as before.                          *)
(***************************************************************************)
C9_EraseEmptyChecked ==
    (CalledInBounds("erase") /\ ~Populated(pre, call.row, call.col)) =>
        /\ call.status = "out_of_range"
        /\ Defined
        /\ Unchanged(pre)

(***************************************************************************)
(* C10.  A set, emplace or erase call whose flattened cell-id is no index  *)
(* of the lookup array throws std::out_of_range to its caller, and the     *)
(* dimensions, dense store, back-index and lookup array are as before.     *)
(***************************************************************************)
C10_BadIdFailsClean ==
    (/\ call.op \in {"set", "emplace", "erase"}
     /\ ~in_range(pre.table_indices,
                  get_table_index(pre, call.row, call.col))) =>
        /\ call.status = "out_of_range"
        /\ Defined
        /\ Unchanged(pre)

\* A set with a cell-id past the lookup array has been refused by a table
\* that holds elements.
C10_Witness ==
    /\ call.op = "set"
    /\ get_table_index(pre, call.row, call.col) >= Len(pre.table_indices)
    /\ Len(pre.cells) >= 2
    /\ call.status = "out_of_range"

(***************************************************************************)
(* C11.  contains(row, col) with a flattened cell-id that is no index of   *)
(* the lookup array throws std::out_of_range to its caller: the process    *)
(* goes on and no boolean is returned; for any other cell-id it returns    *)
(* whether the lookup entry differs from `none`.                           *)
(***************************************************************************)
C11_ContainsThrowsToCaller ==
    call.op = "contains" =>
        LET t == get_table_index(pre, call.row, call.col) IN
        IF ~in_range(pre.table_indices, t)
        THEN /\ call.status = "out_of_range"
             /\ Unchanged(pre)
        ELSE /\ call.status = "ok"
             /\ call.flag = (pre.table_indices[t + 1] # none)

(***************************************************************************)
(* C12.  at(row, col) on an empty cell of the table throws to its caller   *)
(* and leaves the table as it was; on a populated cell it returns the      *)
(* value most recently stored there by set or emplace: the value of the    *)
(* cell's dense slot, which is the argument of a set or emplace right      *)
(* after that call, and which no later call changes while the cell stays   *)
(* populated, except a set or emplace onto the same cell-id.               *)
(***************************************************************************)
C12_AtChecked ==
    /\ CalledInBounds("at") =>
           LET t == get_table_index(pre, call.row, call.col) IN
           /\ Unchanged(pre)
           /\ ~Populated(pre, call.row, call.col) =>
                  /\ call.status = "out_of_range"
                  /\ call.ret = <<>>
           /\ Populated(pre, call.row, call.col) =>
                  /\ call.status = "ok"
                  /\ call.ret = <<pre.cells[pre.table_indices[t + 1] + 1]>>
    /\ (call.op \in {"set", "emplace"} /\ call.status = "ok") =>
           \A rc \in CellsOf(Table) :
               get_table_index(Table, rc[1], rc[2])
                   = get_table_index(pre, call.row, call.col) =>
                   /\ at(Table, rc[1], rc[2]).status = "ok"
                   /\ at(Table, rc[1], rc[2]).ret = <<value_type(call.val)>>
    /\ (Defined /\ ~Unchanged(pre)) =>
           \A rc \in CellsOf(pre) \cap CellsOf(Table) :
               (/\ Populated(pre, rc[1], rc[2])
                /\ Populated(Table, rc[1], rc[2])
                /\ ~(/\ call.op \in {"set", "emplace"}
                     /\ get_table_index(pre, rc[1], rc[2])
                            = get_table_index(pre, call.row, call.col))) =>
                   at(Table, rc[1], rc[2]).ret = at(pre, rc[1], rc[2]).ret

\* at has thrown for an empty cell of a table that holds elements.
C12_Witness ==
    /\ CalledInBounds("at")
    /\ ~Populated(pre, call.row, call.col)
    /\ call.status = "out_of_range"
    /\ count(pre) >= 2

(***************************************************************************)
(* C13.  at_else(row, col, fallback) on a cell of the table, in whatever   *)
(* state it is called and with whatever fallback, returns normally and     *)
(* changes nothing: for a populated cell it returns the value of the       *)
(* cell's dense slot (a reference to that slot), for an empty cell the     *)
(* caller's fallback (a reference to no slot); it never throws for an      *)
(* empty cell.  (at_else is called on every cell of every table reached.)  *)
(***************************************************************************)
C13_AtElseTotal ==
    CalledInBounds("at_else") =>
        LET t == get_table_index(pre, call.row, call.col) IN
        /\ call.status = "ok"
        /\ Unchanged(pre)
        /\ Populated(pre, call.row, call.col) =>
               /\ call.ret = <<pre.cells[pre.table_indices[t + 1] + 1]>>
               /\ call.ret = at(pre, call.row, call.col).ret
               /\ call.slot = <<pre.table_indices[t + 1]>>
        /\ ~Populated(pre, call.row, call.col) =>
               /\ call.ret = <<call.val>>
               /\ call.slot = <<>>

\* at_else has returned the fallback for an empty cell of a table that
\* holds an element of another value.
C13_Witness ==
    /\ CalledInBounds("at_else")
    /\ ~Populated(pre, call.row, call.col)
    /\ call.status = "ok"
    /\ call.slot = <<>>
    /\ count(pre) >= 1
    /\ \A i \in 1 .. Len(pre.cells) : pre.cells[i] # call.val

(***************************************************************************)
(* C14.  get(row, col) on an empty cell of the table returns nullptr and   *)
(* does not throw; on a populated cell it returns a pointer to the cell's  *)
(* dense slot.  That slot is the one whose reference the set or emplace    *)
(* that populated or last overwrote the cell returned: a get made right    *)
(* after such a call, with no mutation in between, designates the slot     *)
(* and the value the call returned.  get changes nothing.                  *)
(***************************************************************************)
C14_GetHandle ==
    /\ CalledInBounds("get") =>
           LET t == get_table_index(pre, call.row, call.col) IN
           /\ call.status = "ok"
           /\ Unchanged(pre)
           /\ ~Populated(pre, call.row, call.col) =>
                  /\ call.ret = <<>>
                  /\ call.slot = <<>>
           /\ Populated(pre, call.row, call.col) =>
                  /\ call.ret = <<pre.cells[pre.table_indices[t + 1] + 1]>>
                  /\ call.slot = <<pre.table_indices[t + 1]>>
    /\ (CalledInBounds("set") \/ CalledInBounds("emplace")) =>
           LET g == get(Table, call.row, call.col) IN
           /\ call.status = "ok"
           /\ call.slot # <<>>
           /\ g.status = "ok"
           /\ g.slot = call.slot
           /\ g.ret = call.ret

\* get has returned a pointer to a dense slot that is not the first, in a
\* table that also has an empty cell.
C14_Witness ==
    /\ CalledInBounds("get")
    /\ call.status = "ok"
    /\ call.ret # <<>>
    /\ call.slot # <<>>
    /\ call.slot # <<0>>
    /\ \E rc \in CellsOf(pre) : get(pre, rc[1], rc[2]).ret = <<>>

(***************************************************************************)
(* C15.  The queries agree: whenever contains, get, at or at_else is       *)
(* called on a cell of the table, the four queries answer alike for that   *)
(* cell of the table the call was made on: contains returns true iff get   *)
(* returns a non-null pointer iff at returns normally iff at_else returns  *)
(* a dense slot and not the fallback; contains, get and at_else do not     *)
(* throw, and the call made ended as its query answers.  Right after a set *)
(* or emplace on a cell of the table, contains is true for that cell.      *)
(* (Each query is called on every cell of every table reached.)            *)
(***************************************************************************)
C15_QueriesAgree ==
    /\ (\E op \in {"contains", "get", "at", "at_else"} : CalledInBounds(op)) =>
           LET c == contains(pre, call.row, call.col)
               g == get(pre, call.row, call.col)
               a == at(pre, call.row, call.col)
           IN  /\ c.status = "ok"
               /\ g.status = "ok"
               /\ c.flag <=> (g.ret # <<>>)
               /\ c.flag <=> (a.status = "ok")
               /\ \A f \in Values :
                      LET e == at_else(pre, call.row, call.col, f) IN
                      /\ e.status = "ok"
                      /\ c.flag <=> (e.slot # <<>>)
                      /\ c.flag => e.ret = a.ret
                      /\ ~c.flag => e.ret = <<f>>
               /\ call.op = "contains" =>
                      call.status = "ok" /\ call.flag = c.flag
               /\ call.op = "get" =>
                      call.status = "ok" /\ (call.ret # <<>>) = c.flag
               /\ call.op = "at" => (call.status = "ok") = c.flag
               /\ call.op = "at_else" =>
                      call.status = "ok" /\ (call.slot # <<>>) = c.flag
    /\ (CalledInBounds("set") \/ CalledInBounds("emplace")) =>
           /\ contains(Table, call.row, call.col).status = "ok"
           /\ contains(Table, call.row, call.col).flag

\* contains has returned true for the cell of the first dense slot, in a
\* table that also has an empty cell.
C15_Witness ==
    /\ CalledInBounds("contains")
    /\ call.status = "ok"
    /\ call.flag
    /\ pre.table_indices[get_table_index(pre, call.row, call.col) + 1] = 0
    /\ \E rc \in CellsOf(pre) : ~contains(pre, rc[1], rc[2]).flag

(***************************************************************************)
(* C16.  reset() returns, discards every element and keeps the dimensions, *)
(* whatever calls (set_size included) led to the table: afterwards count() *)
(* is 0, empty() is true, every cell is empty, dimensions() is as before   *)
(* the call, and the table equals table(rows, cols) as the constructor     *)
(* makes it.                                                               *)
(***************************************************************************)
C16_ResetIsFresh ==
    call.op = "reset" =>
        /\ call.status = "ok"
        /\ count(Table) = 0
        /\ empty(Table)
        /\ dimensions(Table) = dimensions(pre)
        /\ size(Table) = size(pre)
        /\ \A rc \in CellsOf(Table) :
               /\ contains(Table, rc[1], rc[2]).status = "ok"
               /\ ~contains(Table, rc[1], rc[2]).flag
               /\ get(Table, rc[1], rc[2]).ret = <<>>
        /\ Table = table(pre.rows, pre.cols)

\* reset has emptied a table of two rows and one column that held two
\* elements.
C16_Witness ==
    /\ call.op = "reset"
    /\ dimensions(pre) = <<2, 1>>
    /\ count(pre) = 2
    /\ count(Table) = 0
    /\ dimensions(Table) = <<2, 1>>

(***************************************************************************)
(* C17.  set_size(r, c) never increases count(): after the call count() is *)
(* at most count() before it and at most r * c.                            *)
(***************************************************************************)
C17_SetSizeNeverAdds ==
    call.op = "set_size" =>
        /\ count(Table) <= count(pre)
        /\ count(Table) <= call.row * call.col

\* A set_size to fewer cells than the table held elements has dropped some
\* and kept some.
C17_Witness ==
    /\ call.op = "set_size"
    /\ count(pre) > call.row * call.col
    /\ count(Table) >= 1
    /\ count(Table) < count(pre)

(***************************************************************************)
(* C18.  set_size(rows, cols) with the dimensions the table has is a no-op *)
(* on contents: count(), dimensions(), and what contains and at answer for *)
(* every cell are after the call as before it.                             *)
(***************************************************************************)
C18_SetSizeSameIsNoOp ==
    (call.op = "set_size" /\ <<call.row, call.col>> = dimensions(pre)) =>
        /\ call.status = "ok"
        /\ count(Table) = count(pre)
        /\ dimensions(Table) = dimensions(pre)
        /\ \A rc \in CellsOf(pre) :
               /\ contains(Table, rc[1], rc[2]).status
                      = contains(pre, rc[1], rc[2]).status
               /\ contains(Table, rc[1], rc[2]).flag
                      = contains(pre, rc[1], rc[2]).flag
               /\ at(Table, rc[1], rc[2]).status = at(pre, rc[1], rc[2]).status
               /\ at(Table, rc[1], rc[2]).ret = at(pre, rc[1], rc[2]).ret

\* set_size to its own dimensions has been called on a table of four cells
\* that holds elements of two values and has an empty cell.
C18_Witness ==
    /\ call.op = "set_size"
    /\ <<call.row, call.col>> = dimensions(pre)
    /\ size(pre) = 4
    /\ count(pre) >= 2
    /\ count(pre) < size(pre)
    /\ \E i, j \in 1 .. Len(pre.cells) : pre.cells[i] # pre.cells[j]
    /\ count(Table) = count(pre)

(***************************************************************************)
(* C19.  set_size(r, c) never fails: from every state, for all dimensions  *)
(* r, c >= 0 (r = 0 or c = 0 included, and tables of no rows or no columns *)
(* included) the call returns normally, and dimensions() is then (r, c).   *)
(***************************************************************************)
C19_SetSizeNeverFails ==
    call.op = "set_size" =>
        /\ call.status = "ok"
        /\ Defined
        /\ dimensions(Table) = <<call.row, call.col>>
        /\ size(Table) = call.row * call.col
        /\ Len(table_indices) = call.row * call.col

\* A table that holds elements has been resized to no columns.
C19_Witness ==
    /\ call.op = "set_size"
    /\ count(pre) >= 2
    /\ call.row > 0
    /\ call.col = 0
    /\ call.status = "ok"
    /\ dimensions(Table) = <<call.row, 0>>

\* A table of no columns has been resized to one with cells.
C19_WitnessFromZero ==
    /\ call.op = "set_size"
    /\ pre.rows > 0
    /\ pre.cols = 0
    /\ call.row * call.col > 0
    /\ call.status = "ok"

(***************************************************************************)
(* C20.  erase followed by re-insertion is a round trip on what the caller *)
(* observes: when erase(row, col) has erased a populated cell of the table *)
(* that held v, set(row, col, v) on the table erase left returns, and      *)
(* count() and what contains and at answer for every cell are then as they *)
(* were before the erase (the order of the dense store may differ).        *)
(***************************************************************************)
C20_EraseSetRoundTrip ==
    (CalledInBounds("erase") /\ Populated(pre, call.row, call.col)) =>
        LET v == at(pre, call.row, call.col).ret[1]
            S == set(Table, call.row, call.col, v)
        IN  /\ call.status = "ok"
            /\ S.status = "ok"
            /\ count(S.t) = count(pre)
            /\ dimensions(S.t) = dimensions(pre)
            /\ \A rc \in CellsOf(pre) :
                   /\ contains(S.t, rc[1], rc[2]).status = "ok"
                   /\ contains(S.t, rc[1], rc[2]).flag
                          = contains(pre, rc[1], rc[2]).flag
                   /\ at(S.t, rc[1], rc[2]).status
                          = at(pre, rc[1], rc[2]).status
                   /\ at(S.t, rc[1], rc[2]).ret = at(pre, rc[1], rc[2]).ret

\* The first of three elements has been erased: setting it again gives a
\* dense store in another order.
C20_Witness ==
    /\ CalledInBounds("erase")
    /\ Populated(pre, call.row, call.col)
    /\ Len(pre.cells) = 3
    /\ pre.table_indices[get_table_index(pre, call.row, call.col) + 1] = 0
    /\ pre.cells[1] # pre.cells[3]
    /\ set(Table, call.row, call.col, pre.cells[1]).t.cells # pre.cells
    /\ set(Table, call.row, call.col, pre.cells[1]).t.table_indices
           # pre.table_indices

(***************************************************************************)
(* C21.  Iteration from begin() to end() changes nothing and visits        *)
(* exactly count() values; for every value v, it visits v as many times as *)
(* there are populated cells of the table that hold v.  It visits nothing  *)
(* for an erased cell: after erase of a populated cell, the values visited *)
(* are those visited before, less one occurrence of the erased value.      *)
(***************************************************************************)
C21_IterationVisitsPopulated ==
    /\ call.op = "iterate" =>
           /\ call.status = "ok"
           /\ Unchanged(pre)
           /\ Len(call.ret) = count(pre)
           /\ \A k \in 1 .. Len(call.ret) : call.ret[k] \in Values
           /\ \A v \in Values :
                  Cardinality({k \in 1 .. Len(call.ret) : call.ret[k] = v})
                      = Cardinality({rc \in CellsOf(pre) :
                                         /\ Populated(pre, rc[1], rc[2])
                                         /\ at(pre, rc[1], rc[2]).ret = <<v>>})
    /\ (CalledInBounds("erase") /\ Populated(pre, call.row, call.col)) =>
           /\ Len(iterate(Table)) = Len(iterate(pre)) - 1
           /\ \A v \in Values :
                  Cardinality({k \in 1 .. Len(iterate(Table)) :
                                   iterate(Table)[k] = v})
                      = Cardinality({k \in 1 .. Len(iterate(pre)) :
                                         iterate(pre)[k] = v})
                        - (IF at(pre, call.row, call.col).ret = <<v>>
                           THEN 1 ELSE 0)

\* The iteration has visited three values, two of them equal, of a table
\* that has an empty cell.
C21_Witness ==
    /\ call.op = "iterate"
    /\ Len(call.ret) = 3
    /\ count(pre) < size(pre)
    /\ \E i, j \in 1 .. 3 : i # j /\ call.ret[i] = call.ret[j]
    /\ \E i, j \in 1 .. 3 : call.ret[i] # call.ret[j]

(***************************************************************************)
(* C22.  A newly constructed table is empty.  table() has dimensions       *)
(* (4, 4) and size() 16; table(rows, cols) has dimensions (rows, cols) and *)
(* size() rows * cols.  In both cases count() is 0, empty() is true, the   *)
(* lookup array has size() entries and every one of them is `none`; the    *)
(* observers called on the new table return these values.                  *)
(***************************************************************************)
C22_NewTableEmpty ==
    /\ call.op = "table_default" =>
           /\ dimensions(Table) = <<4, 4>>
           /\ size(Table) = 16
    /\ call.op = "table" =>
           /\ dimensions(Table) = <<call.row, call.col>>
           /\ size(Table) = call.row * call.col
    /\ count(Table) = 0
    /\ empty(Table)
    /\ cells = <<>>
    /\ cells_indices = <<>>
    /\ Len(table_indices) = size(Table)
    /\ \A k \in 1 .. Len(table_indices) : table_indices[k] = none
    /\ call.op = "size" => call.ret = <<pre.rows * pre.cols>>
    /\ call.op = "dimensions" => call.ret = <<pre.rows, pre.cols>>
    /\ call.op = "count" => call.ret = <<0>>
    /\ call.op = "empty" => call.flag
    /\ CalledInBounds("contains") => call.status = "ok" /\ ~call.flag

\* size() has returned 16 for the table of the default constructor.
C22_Witness ==
    /\ call.op = "size"
    /\ call.ret = <<16>>
    /\ dimensions(pre) = <<4, 4>>
    /\ Len(table_indices) = 16

\* empty() has returned true for a table(2, 1).
C22_WitnessTwoArguments ==
    /\ call.op = "empty"
    /\ call.flag
    /\ dimensions(pre) = <<2, 1>>

(***************************************************************************)
(* C23.  erase of the populated cell whose element is at dense position i  *)
(* is one swap-and-pop, applied alike to the dense store and the           *)
(* back-index.  With n elements before the call: both arrays have n - 1    *)
(* entries afterwards; when i is not the last position, position i holds   *)
(* the value and the cell-id that were at the last position; every other   *)
(* position j < n - 1 keeps its value and its back-index entry.  The       *)
(* lookup entry of the erased cell becomes `none`, that of the relocated   *)
(* element's cell becomes i, and no other lookup entry changes; when i is  *)
(* the last position (a table of one element included) only the erased     *)
(* cell's lookup entry changes.                                            *)
(***************************************************************************)
C23_EraseSwapAndPop ==
    (CalledInBounds("erase") /\ Populated(pre, call.row, call.col)) =>
        LET t == get_table_index(pre, call.row, call.col)
            i == pre.table_indices[t + 1]
            n == Len(pre.cells)
            moved == pre.cells_indices[n]
            changed == {k \in 1 .. Len(pre.table_indices) :
                            table_indices[k] # pre.table_indices[k]}
        IN  /\ call.status = "ok"
            /\ Len(cells) = n - 1
            /\ Len(cells_indices) = n - 1
            /\ Len(table_indices) = Len(pre.table_indices)
            /\ \A j \in 0 .. n - 2 :
                   j # i => /\ cells[j + 1] = pre.cells[j + 1]
                            /\ cells_indices[j + 1] = pre.cells_indices[j + 1]
            /\ table_indices[t + 1] = none
            /\ i # n - 1 =>
                   /\ cells[i + 1] = pre.cells[n]
                   /\ cells_indices[i + 1] = moved
                   /\ table_indices[moved + 1] = i
                   /\ changed = {t + 1, moved + 1}
            /\ i = n - 1 => changed = {t + 1}

\* The element at the first of three dense positions has been erased, and
\* the last one, of another value, relocated.
C23_Witness ==
    /\ CalledInBounds("erase")
    /\ Populated(pre, call.row, call.col)
    /\ Len(pre.cells) = 3
    /\ pre.table_indices[get_table_index(pre, call.row, call.col) + 1] = 0
    /\ pre.cells[3] # pre.cells[1]
    /\ cells[1] = pre.cells[3]
    /\ cells[2] = pre.cells[2]

\* The only element of a table has been erased: nothing is relocated.
C23_WitnessLast ==
    /\ CalledInBounds("erase")
    /\ Populated(pre, call.row, call.col)
    /\ Len(pre.cells) = 1
    /\ size(pre) = 4
    /\ Len(cells) = 0

(***************************************************************************)
(* C24.  set or emplace on an empty cell of the table appends.  With n =   *)
(* count() before the call: the new value is at dense position n, the      *)
(* back-index entry n is the cell's flattened id, the cell's lookup entry  *)
(* is n, and the earlier dense positions, the earlier back-index entries   *)
(* and all other lookup entries are as before; the reference returned is   *)
(* to position n.                                                          *)
(***************************************************************************)
C24_SetEmptyAppends ==
    ((CalledInBounds("set") \/ CalledInBounds("emplace"))
     /\ ~Populated(pre, call.row, call.col)) =>
        LET t == get_table_index(pre, call.row, call.col)
            n == count(pre)
        IN  /\ call.status = "ok"
            /\ count(Table) = n + 1
            /\ Len(cells) = n + 1
            /\ Len(cells_indices) = n + 1
            /\ cells[n + 1] = value_type(call.val)
            /\ cells_indices[n + 1] = t
            /\ table_indices[t + 1] = n
            /\ SubSeq(cells, 1, n) = pre.cells
            /\ SubSeq(cells_indices, 1, n) = pre.cells_indices
            /\ Len(table_indices) = Len(pre.table_indices)
            /\ \A k \in 1 .. Len(pre.table_indices) :
                   k # t + 1 => table_indices[k] = pre.table_indices[k]
            /\ dimensions(Table) = dimensions(pre)
            /\ call.slot = <<n>>
            /\ call.ret = <<value_type(call.val)>>

\* emplace has appended a third element, for a cell that is not the last of
\* the table.
C24_Witness ==
    /\ CalledInBounds("emplace")
    /\ ~Populated(pre, call.row, call.col)
    /\ count(pre) = 2
    /\ call.slot = <<2>>
    /\ get_table_index(pre, call.row, call.col) < size(pre) - 1
    /\ Len(cells) = 3

(***************************************************************************)
(* C25.  In every state reached with defined behaviour the lookup array    *)
(* has exactly rows * cols entries, and size() returns that number.  set,  *)
(* emplace, erase and reset (and the queries) leave dimensions() and       *)
(* size() as they were; set_size(r, c) makes them (r, c) and r * c.        *)
(***************************************************************************)
C25_SizeIsLookupLength ==
    /\ Defined =>
           /\ Len(table_indices) = rows * cols
           /\ size(Table) = Len(table_indices)
    /\ call.op = "size" => call.ret = <<Len(pre.table_indices)>>
    /\ call.op = "dimensions" => call.ret = <<pre.rows, pre.cols>>
    /\ (Defined /\ call.op \notin {"set_size", "table", "table_default"}) =>
           /\ dimensions(Table) = dimensions(pre)
           /\ size(Table) = size(pre)
           /\ Len(table_indices) = Len(pre.table_indices)
    /\ call.op = "set_size" =>
           /\ dimensions(Table) = <<call.row, call.col>>
           /\ size(Table) = call.row * call.col

\* reset has been called on a table of one row and two columns that held
\* elements.
C25_Witness ==
    /\ call.op = "reset"
    /\ count(pre) >= 1
    /\ dimensions(pre) = <<1, 2>>
    /\ dimensions(Table) = <<1, 2>>
    /\ Len(table_indices) = 2

\* set_size has changed size() of a table that held elements.
C25_WitnessSetSize ==
    /\ call.op = "set_size"
    /\ count(pre) >= 1
    /\ size(Table) # size(pre)
    /\ Len(table_indices) = size(Table)

(***************************************************************************)
(* C26.  Distinct cells of a table never share a flattened id, and every   *)
(* cell's id is an index of the lookup array; so set(row, col, v) or       *)
(* emplace on a cell of the table affects only that cell: for every other  *)
(* cell of the table contains and at answer after the call as before it.   *)
(***************************************************************************)
C26_SetTouchesOneCell ==
    /\ \A rc1 \in CellsOf(Table), rc2 \in CellsOf(Table) :
           get_table_index(Table, rc1[1], rc1[2])
               = get_table_index(Table, rc2[1], rc2[2]) => rc1 = rc2
    /\ Defined =>
           \A rc \in CellsOf(Table) :
               in_range(table_indices, get_table_index(Table, rc[1], rc[2]))
    /\ (CalledInBounds("set") \/ CalledInBounds("emplace")) =>
           \A rc \in CellsOf(pre) :
               rc # <<call.row, call.col>> =>
                   /\ contains(Table, rc[1], rc[2]).status = "ok"
                   /\ contains(Table, rc[1], rc[2]).flag
                          = contains(pre, rc[1], rc[2]).flag
                   /\ at(Table, rc[1], rc[2]).status
                          = at(pre, rc[1], rc[2]).status
                   /\ at(Table, rc[1], rc[2]).ret = at(pre, rc[1], rc[2]).ret

\* set has written another value into cell (0, 1) of a table of two rows
\* and two columns whose cell (1, 0) holds an element.
C26_Witness ==
    /\ CalledInBounds("set")
    /\ dimensions(pre) = <<2, 2>>
    /\ <<call.row, call.col>> = <<0, 1>>
    /\ Populated(pre, 1, 0)
    /\ at(pre, 1, 0).ret # <<call.val>>
    /\ at(Table, 0, 1).ret = <<call.val>>

(***************************************************************************)
(* C27.  In every state reached with defined behaviour count() <= size();  *)
(* a table of no rows or of no columns holds no element.  So whenever      *)
(* set_size is called on a table of no columns, its loop over the stored   *)
(* cell-ids has nothing to decode and index / cols is not evaluated.       *)
(***************************************************************************)
C27_CountWithinSize ==
    /\ Defined =>
           /\ count(Table) <= size(Table)
           /\ (rows = 0 \/ cols = 0) =>
                  /\ count(Table) = 0
                  /\ empty(Table)
                  /\ Len(cells_indices) = 0
    /\ call.op = "set_size" =>
           /\ pre.cols = 0 => Len(pre.cells_indices) = 0
           /\ call.status = "ok"
           /\ Defined

\* set_size has been called on a table of no columns; and (below) a table
\* is full.
C27_Witness ==
    /\ call.op = "set_size"
    /\ pre.rows > 0
    /\ pre.cols = 0
    /\ call.col > 0
    /\ call.row > 0

C27_WitnessFull ==
    /\ call.op = "set"
    /\ count(Table) = size(Table)
    /\ size(Table) = 4

(***************************************************************************)
(* C28.  Shrinking is lossy and growing back does not undo it: when        *)
(* set_size(r1, c1) has been called and set_size(r2, c2) follows, for any  *)
(* (r2, c2), the second call returns and the populated cells are then      *)
(* exactly the cells populated before the first call with                  *)
(* row < min(r1, r2) and col < min(c1, c2), each with the value it had;    *)
(* what the first call dropped is not restored by the second.              *)
(***************************************************************************)
Min(a, b) == IF a < b THEN a ELSE b

C28_ShrinkIsLossy ==
    call.op = "set_size" =>
        \A d \in Dimensions :
            LET S == set_size(Table, d[1], d[2]) IN
            /\ S.status = "ok"
            /\ dimensions(S.t) = <<d[1], d[2]>>
            /\ \A row \in DimRange, col \in DimRange :
                   /\ (InBounds(S.t, row, col) /\ Populated(S.t, row, col))
                      <=> /\ InBounds(pre, row, col)
                          /\ Populated(pre, row, col)
                          /\ row < Min(call.row, d[1])
                          /\ col < Min(call.col, d[2])
                   /\ (InBounds(S.t, row, col) /\ Populated(S.t, row, col))
                      => at(S.t, row, col).ret = at(pre, row, col).ret

\* set_size has dropped an element and kept one; set_size back to the
\* former dimensions gives a table with the former dimensions and without
\* the dropped element.
C28_Witness ==
    /\ call.op = "set_size"
    /\ count(Table) >= 1
    /\ count(Table) < count(pre)
    /\ size(Table) < size(pre)
    /\ dimensions(set_size(Table, pre.rows, pre.cols).t) = dimensions(pre)
    /\ count(set_size(Table, pre.rows, pre.cols).t) = count(Table)

(***************************************************************************)
(* C29.  set_size keeps the relative order of the surviving elements in    *)
(* the dense store: every element of the new dense store is the element of *)
(* a cell that was populated, with its value, and of two elements of the   *)
(* new dense store the earlier one was the earlier one before the call.    *)
(* The survivors occupy the dense positions 0 .. count() - 1 with no gaps: *)
(* the dense store and the back-index have count() entries, as many as     *)
(* there are populated cells, and the lookup entry of the cell of          *)
(* position k is k.                                                        *)
(***************************************************************************)
\* The position (0-based) that the element at position k of the current
\* dense store had in the dense store before the call.
C29_PositionBefore(k) ==
    pre.table_indices[get_table_index(pre, cells_indices[k + 1] \div cols,
                                      cells_indices[k + 1] % cols) + 1]

C29_SetSizeKeepsOrder ==
    call.op = "set_size" =>
        /\ call.status = "ok"
        /\ Len(cells) = count(Table)
        /\ Len(cells_indices) = count(Table)
        /\ count(Table) = Cardinality({rc \in CellsOf(Table) :
                                           Populated(Table, rc[1], rc[2])})
        /\ \A k \in 0 .. Len(cells) - 1 :
               /\ in_range(table_indices, cells_indices[k + 1])
               /\ table_indices[cells_indices[k + 1] + 1] = k
               /\ InBounds(pre, cells_indices[k + 1] \div cols,
                           cells_indices[k + 1] % cols)
               /\ in_range(pre.cells, C29_PositionBefore(k))
               /\ pre.cells[C29_PositionBefore(k) + 1] = cells[k + 1]
        /\ \A k1 \in 0 .. Len(cells) - 1, k2 \in 0 .. Len(cells) - 1 :
               k1 < k2 => C29_PositionBefore(k1) < C29_PositionBefore(k2)

\* set_size to another column count has dropped the second of three
\* elements: the first and the third, of different values, are now the first
\* and the second.
C29_Witness ==
    /\ call.op = "set_size"
    /\ pre.cols # cols
    /\ Len(pre.cells) = 3
    /\ Len(cells) = 2
    /\ pre.cells_indices[2] % pre.cols >= call.col
    /\ pre.cells[1] # pre.cells[3]
    /\ cells = <<pre.cells[1], pre.cells[3]>>
    /\ cells_indices # <<pre.cells_indices[1], pre.cells_indices[3]>>

====
